---- MODULE Spec2Model ----
(***************************************************************************)
(* A model of the routing/coverage optimizer of the trip solver:           *)
(* trip_solver/util/solver_util.py (availability rule, cost and matchup    *)
(* matrices), trip_solver/solver/solver.py (the 0/1 program and its        *)
(* solution) and trip_solver/solver/driver.py (binary search over the      *)
(* driving-hours cap, path extraction, the per-team run and its files).    *)
(*                                                                         *)
(* Instants are whole seconds since 00:00 UTC of day 0 of the modelled     *)
(* window; the window lies in Eastern Standard Time.  A dict is a function *)
(* whose DOMAIN is the dict's key set, so a missing key stays missing.     *)
(***************************************************************************)
EXTENDS Integers, Sequences, FiniteSets, TLC

\* ------------------------------------------------------------------ bounds
\* The longest season (event list) the inputs are drawn from.
MaxEvents == 3
\* The longest team list main is run on.
MaxTeams == 9
\* The worker processes of main's pool: the code's 16, scaled down so that a
\* team list within MaxTeams fills the pool and is cut into chunks of two.
Processes == 2

\* -------------------------------------------------------------- constants
\* trip_solver/solver/consts.py
DUMMY_EVENT_ID == "dummy"
AVG_EVENT_LENGTH == 180

Day == 24 * 3600
Min(a, b) == IF a <= b THEN a ELSE b
Max(a, b) == IF a >= b THEN a ELSE b
\* math.ceil(a / b) on integers, b > 0
ceil(a, b) == (a + b - 1) \div b
\* the H the search starts from and the largest it tries
FirstHour == 1
LastHour == 24
Hours == FirstHour..LastHour

\* ------------------------------------------------------------------ dicts
Has(d, k) == k \in DOMAIN d
\* d.get(k, default)
Get(d, k, default) == IF k \in DOMAIN d THEN d[k] ELSE default
\* d[k] = v
Put(d, k, v) == [x \in DOMAIN d \cup {k} |-> IF x = k THEN v ELSE d[x]]
EmptyDict == [x \in {} |-> 0]
Ids(events) == {events[a].id : a \in DOMAIN events}
Idx(events, i) == CHOOSE a \in DOMAIN events : events[a].id = i
\* itertools.permutations(events, 2), as positions in the list
permutations(events) == {p \in (DOMAIN events) \X (DOMAIN events) : p[1] # p[2]}

\* ------------------------------------------------------------------- time
\* datetime.astimezone(ZoneInfo("America/New_York")): UTC to Eastern wall clock
astimezone(t) == t - 5 * 3600
\* the wall-clock day a wall-clock instant falls on
strip_datetime(dt) == dt - (dt % Day)
\* datetime.date() of the stored (UTC) instant, as a day number
date(t) == t \div Day

\* faulty variant: the hours left of each full day counted instead of the cap
available_driving_time_rest_hours(event_1, event_2, max_driving_hours_per_day) ==
    IF event_1.time >= event_2.time THEN -1
    ELSE
    LET allowed_start == astimezone(event_1.time) + (AVG_EVENT_LENGTH + 60) * 60
        end_of_start_day == strip_datetime(allowed_start) + Day
        allowed_end == astimezone(event_2.time) - 3600
        start_of_end_day == strip_datetime(allowed_end)
    IN  Max((start_of_end_day - end_of_start_day) \div Day, 0)
            * (24 - max_driving_hours_per_day) * 60
          + Min((end_of_start_day - allowed_start) \div 60,
                60 * max_driving_hours_per_day)
          + Min((allowed_end - start_of_end_day) \div 60,
                60 * max_driving_hours_per_day)

\* faulty variant: 0 minutes, not -1, for a pair that is not in time order
available_driving_time_zero_when_unordered(event_1, event_2, max_driving_hours_per_day) ==
    IF event_1.time >= event_2.time THEN 0
    ELSE
    LET allowed_start == astimezone(event_1.time) + (AVG_EVENT_LENGTH + 60) * 60
        end_of_start_day == strip_datetime(allowed_start) + Day
        allowed_end == astimezone(event_2.time) - 3600
        start_of_end_day == strip_datetime(allowed_end)
    IN  Max((start_of_end_day - end_of_start_day) \div Day, 0)
            * max_driving_hours_per_day * 60
          + Min((end_of_start_day - allowed_start) \div 60,
                60 * max_driving_hours_per_day)
          + Min((allowed_end - start_of_end_day) \div 60,
                60 * max_driving_hours_per_day)

available_driving_time(event_1, event_2, max_driving_hours_per_day) ==
    IF event_1.time >= event_2.time THEN -1
    ELSE
    LET event_1_time == astimezone(event_1.time)
        event_2_time == astimezone(event_2.time)
        allowed_start == event_1_time + (AVG_EVENT_LENGTH + 60) * 60
        end_of_start_day == strip_datetime(allowed_start) + Day
        start_day_driving_time ==
            Min((end_of_start_day - allowed_start) \div 60,
                60 * max_driving_hours_per_day)
        allowed_end == event_2_time - 3600
        start_of_end_day == strip_datetime(allowed_end)
        end_day_driving_time ==
            Min((allowed_end - strip_datetime(allowed_end)) \div 60,
                60 * max_driving_hours_per_day)
        full_days_between ==
            Max((start_of_end_day - end_of_start_day) \div Day, 0)
    IN  full_days_between * max_driving_hours_per_day * 60
          + start_day_driving_time + end_day_driving_time

\* --------------------------------------------------------------- matrices
add_dummy_to_matchup_matrix(matchup_matrix) ==
    Put(matchup_matrix, DUMMY_EVENT_ID, EmptyDict)

\* faulty variant: only the away team entered for an event
build_matchup_matrix_away_only(events) ==
    add_dummy_to_matchup_matrix(
        [i \in Ids(events) |->
            LET e == events[Idx(events, i)]
            IN  [t \in {e.away_team.id} |-> 1]])

build_matchup_matrix(events) ==
    add_dummy_to_matchup_matrix(
        [i \in Ids(events) |->
            LET e == events[Idx(events, i)]
            IN  [t \in {e.home_team.id, e.away_team.id} |-> 1]])

\* faulty variant: no row for an event that had no outgoing entry
add_dummy_to_cost_matrix_known_rows(cost_matrix, events) ==
    [i \in DOMAIN cost_matrix \cup {DUMMY_EVENT_ID} |->
        IF i = DUMMY_EVENT_ID THEN [j \in Ids(events) |-> 0]
        ELSE IF i \in Ids(events) THEN Put(cost_matrix[i], DUMMY_EVENT_ID, 0)
        ELSE cost_matrix[i]]

add_dummy_to_cost_matrix(cost_matrix, events) ==
    LET row(i) == IF Has(cost_matrix, i) /\ i # DUMMY_EVENT_ID
                  THEN cost_matrix[i] ELSE EmptyDict
    IN  [i \in DOMAIN cost_matrix \cup Ids(events) \cup {DUMMY_EVENT_ID} |->
            IF i = DUMMY_EVENT_ID THEN [j \in Ids(events) |-> 0]
            ELSE IF i \in Ids(events) THEN Put(row(i), DUMMY_EVENT_ID, 0)
            ELSE cost_matrix[i]]

\* build_trip_duration_matrix(events, include_dummy=False): the matrix the
\* dummy is added to
build_trip_duration_matrix_without_dummy(events) ==
    LET later(a) == {b \in DOMAIN events :
                        b # a /\ events[a].time < events[b].time}
        rows == {a \in DOMAIN events : later(a) # {}}
    IN  [i \in {events[a].id : a \in rows} |->
            LET a == Idx(events, i)
            IN  [j \in {events[b].id : b \in later(a)} |->
                    date(events[Idx(events, j)].time) - date(events[a].time)]]

\* faulty variant: the time test the wrong way round, so that the entries are
\* those from the later to the earlier event
build_trip_duration_matrix_backward(events) ==
    LET earlier(a) == {b \in DOMAIN events :
                          b # a /\ events[a].time > events[b].time}
        rows == {a \in DOMAIN events : earlier(a) # {}}
    IN  add_dummy_to_cost_matrix(
            [i \in {events[a].id : a \in rows} |->
                LET a == Idx(events, i)
                IN  [j \in {events[b].id : b \in earlier(a)} |->
                        date(events[Idx(events, j)].time) - date(events[a].time)]],
            events)

build_trip_duration_matrix(events) ==
    LET later(a) == {b \in DOMAIN events :
                        b # a /\ events[a].time < events[b].time}
        rows == {a \in DOMAIN events : later(a) # {}}
    IN  add_dummy_to_cost_matrix(
            [i \in {events[a].id : a \in rows} |->
                LET a == Idx(events, i)
                IN  [j \in {events[b].id : b \in later(a)} |->
                        date(events[Idx(events, j)].time) - date(events[a].time)]],
            events)

\* cost_matrix.py: a UTC instant on the Eastern wall clock
utc_to_eastern(dt) == astimezone(dt)

\* cost_matrix.py: the day-level trip duration, from the Eastern dates
compute_total_duration_matrix(events) ==
    [i \in Ids(events) |->
        LET a == Idx(events, i)
        IN  [j \in {i} \cup {events[b].id : b \in
                        {c \in DOMAIN events : events[a].time < events[c].time}} |->
                IF j = i THEN 0
                ELSE date(utc_to_eastern(events[Idx(events, j)].time))
                       - date(utc_to_eastern(events[a].time))]]

\* faulty variant: a cost of 0 where the route matrix has no entry
route_default_zero(route_matrix, origin, destination) ==
    IF Has(route_matrix, origin) /\ Has(route_matrix[origin], destination)
    THEN <<route_matrix[origin][destination]>>
    ELSE <<0>>

\* route_matrix[origin][destination]: the entry, or nothing where the
\* subscript raises KeyError
route(route_matrix, origin, destination) ==
    IF Has(route_matrix, origin) /\ Has(route_matrix[origin], destination)
    THEN <<route_matrix[origin][destination]>>
    ELSE <<>>

\* the key of the KeyError that stops build_driving_cost_matrix, if any: the
\* one of the first pair, in the order of permutations, that has no entry
key_error(events, route_matrix) ==
    LET failing == {p \in permutations(events) :
                       route(route_matrix, events[p[1]].venue,
                             events[p[2]].venue) = <<>>}
        first == CHOOSE p \in failing : \A q \in failing :
                     p[1] < q[1] \/ (p[1] = q[1] /\ p[2] <= q[2])
    IN  IF failing = {} THEN <<>>
        ELSE IF Has(route_matrix, events[first[1]].venue)
        THEN <<events[first[2]].venue>>
        ELSE <<events[first[1]].venue>>

\* faulty variant: the entry of the opposite direction
build_driving_cost_matrix_transposed(events, route_matrix) ==
    LET rows == {a \in DOMAIN events : \E p \in permutations(events) : p[1] = a}
    IN  add_dummy_to_cost_matrix(
            [i \in {events[a].id : a \in rows} |->
                LET a == Idx(events, i)
                IN  [j \in {events[b].id : b \in DOMAIN events \ {a}} |->
                        route(route_matrix, events[Idx(events, j)].venue,
                              events[a].venue)[1]]],
            events)

build_driving_cost_matrix(events, route_matrix) ==
    LET rows == {a \in DOMAIN events : \E p \in permutations(events) : p[1] = a}
    IN  add_dummy_to_cost_matrix(
            [i \in {events[a].id : a \in rows} |->
                LET a == Idx(events, i)
                IN  [j \in {events[b].id : b \in DOMAIN events \ {a}} |->
                        route(route_matrix, events[a].venue,
                              events[Idx(events, j)].venue)[1]]],
            events)

SelectTeams(teams, name) == SelectSeq(teams, LAMBDA team : team.name # name)

\* faulty variant: the Nashville/Pittsburgh exclusion in one direction only
remove_infeasible_teams_one_direction(teams, team_name) ==
    IF team_name = "Pittsburgh Penguins" THEN SelectTeams(teams, "Nashville Predators")
    ELSE IF team_name = "Orlando Magic" THEN SelectTeams(teams, "Memphis Grizzlies")
    ELSE IF team_name = "Memphis Grizzlies" THEN SelectTeams(teams, "Orlando Magic")
    ELSE teams

remove_infeasible_teams(teams, team_name) ==
    IF team_name = "Nashville Predators" THEN SelectTeams(teams, "Pittsburgh Penguins")
    ELSE IF team_name = "Pittsburgh Penguins" THEN SelectTeams(teams, "Nashville Predators")
    ELSE IF team_name = "Orlando Magic" THEN SelectTeams(teams, "Memphis Grizzlies")
    ELSE IF team_name = "Memphis Grizzlies" THEN SelectTeams(teams, "Orlando Magic")
    ELSE teams

\* ------------------------------------------------------------ the program
\* faulty variant: the required minutes rounded down instead of up
create_edge_variables_floor(events, max_driving_hours_per_day, driving_duration_matrix) ==
    {<<events[p[1]].id, events[p[2]].id>> : p \in
        {q \in permutations(events) :
            available_driving_time(events[q[1]], events[q[2]],
                                   max_driving_hours_per_day)
              >= driving_duration_matrix[events[q[1]].id][events[q[2]].id] \div 60}}
    \cup {<<DUMMY_EVENT_ID, events[a].id>> : a \in DOMAIN events}
    \cup {<<events[a].id, DUMMY_EVENT_ID>> : a \in DOMAIN events}

\* The edge variables, each named by its (from, to) pair.
create_edge_variables(events, max_driving_hours_per_day, driving_duration_matrix) ==
    {<<events[p[1]].id, events[p[2]].id>> : p \in
        {q \in permutations(events) :
            available_driving_time(events[q[1]], events[q[2]],
                                   max_driving_hours_per_day)
              >= ceil(driving_duration_matrix[events[q[1]].id][events[q[2]].id], 60)}}
    \cup {<<DUMMY_EVENT_ID, events[a].id>> : a \in DOMAIN events}
    \cup {<<events[a].id, DUMMY_EVENT_ID>> : a \in DOMAIN events}

\* A 0/1 assignment is the set x of the edge variables that are 1.
out_degree(x, i) == Cardinality({e \in x : e[1] = i})
in_degree(x, i) == Cardinality({e \in x : e[2] = i})

\* faulty variant: the flow-conservation constraints left out
add_tour_constraints_degrees_only(x, events) ==
    \A i \in Ids(events) \cup {DUMMY_EVENT_ID} :
        out_degree(x, i) <= 1 /\ in_degree(x, i) <= 1

\* faulty variant: only the equal-degree constraints, no degree caps
add_tour_constraints_balance_only(x, events) ==
    \A i \in Ids(events) \cup {DUMMY_EVENT_ID} :
        out_degree(x, i) - in_degree(x, i) = 0

add_tour_constraints(x, events) ==
    LET event_ids == Ids(events) \cup {DUMMY_EVENT_ID}
    IN  /\ \A i \in event_ids : out_degree(x, i) <= 1 /\ in_degree(x, i) <= 1
        /\ \A i \in event_ids : out_degree(x, i) - in_degree(x, i) = 0

\* lpSum of one team's coverage expression under assignment x
opponent_sum(x, events, edge_variables, matchup_matrix, team) ==
    Cardinality({e \in x \cap edge_variables :
                    /\ e[2] \in Ids(events)
                    /\ Get(matchup_matrix[e[2]], team.id, 0) = 1})

\* faulty variant: one constraint for all the teams together
add_opponent_constraints_any_team(x, events, edge_variables, matchup_matrix, interested_teams) ==
    interested_teams # {} =>
        \E team \in interested_teams :
            opponent_sum(x, events, edge_variables, matchup_matrix, team) >= 1

add_opponent_constraints(x, events, edge_variables, matchup_matrix, interested_teams) ==
    \A team \in interested_teams :
        opponent_sum(x, events, edge_variables, matchup_matrix, team) >= 1

\* faulty variant: the objective without the 1 per edge
RECURSIVE total_cost_no_edge_count(_, _)
total_cost_no_edge_count(x, cost_matrix) ==
    IF x = {} THEN 0
    ELSE LET e == CHOOSE v \in x : TRUE
         IN  cost_matrix[e[1]][e[2]] + total_cost_no_edge_count(x \ {e}, cost_matrix)

RECURSIVE total_cost(_, _)
total_cost(x, cost_matrix) ==
    IF x = {} THEN 0
    ELSE LET e == CHOOSE v \in x : TRUE
         IN  cost_matrix[e[1]][e[2]] + 1 + total_cost(x \ {e}, cost_matrix)

\* The assignments that satisfy every constraint of the program.
feasible(events, edge_variables, matchup_matrix, interested_teams) ==
    {x \in SUBSET edge_variables :
        /\ add_tour_constraints(x, events)
        /\ add_opponent_constraints(x, events, edge_variables, matchup_matrix,
                                    interested_teams)}

\* the status the solver reports for a program with these assignments
status_of(F) == IF F = {} THEN "Infeasible" ELSE "Optimal"

\* What solve may return: the solved problem, for each optimal assignment
\* the solver may pick, or the one unsolved problem.
solve(events, max_driving_hours_per_day, driving_duration_matrix, cost_matrix, matchup_matrix, interested_teams) ==
    LET edge_variables == create_edge_variables(events, max_driving_hours_per_day,
                                                driving_duration_matrix)
        F == feasible(events, edge_variables, matchup_matrix, interested_teams)
        best == {x \in F : \A y \in F : total_cost(x, cost_matrix)
                                          <= total_cost(y, cost_matrix)}
    IN  IF status_of(F) # "Optimal"
        THEN {[status |-> status_of(F), hours |-> max_driving_hours_per_day,
               variables |-> edge_variables, x |-> {}, objective |-> 0]}
        ELSE {[status |-> "Optimal", hours |-> max_driving_hours_per_day,
               variables |-> edge_variables, x |-> s,
               objective |-> total_cost(s, cost_matrix)] : s \in best}

\* What optimal_trip.solve may leave when the solver stops without proving
\* anything (a numerical or limit failure): a status that is not optimal, and
\* the variable values of the solver's last point, all zero or a selection
\* that satisfies the constraints.
solver_anomaly(events, max_driving_hours_per_day, driving_duration_matrix, cost_matrix, matchup_matrix, interested_teams) ==
    LET edge_variables == create_edge_variables(events, max_driving_hours_per_day,
                                                driving_duration_matrix)
        F == feasible(events, edge_variables, matchup_matrix, interested_teams)
    IN  {[status |-> "Not Solved", hours |-> max_driving_hours_per_day,
          variables |-> edge_variables, x |-> s,
          objective |-> total_cost(s, cost_matrix)] : s \in F \cup {{}}}

\* ------------------------------------------------------- path extraction
\* faulty variant: to_event -> from_event
next_event_of_reversed(x) ==
    [i \in {e[2] : e \in x} |-> (CHOOSE e \in x : e[2] = i)[1]]

\* next_event of format_lp_output: from_event -> to_event over the variables
\* whose value is 1.
next_event_of(x) ==
    [i \in {e[1] : e \in x} |-> (CHOOSE e \in x : e[1] = i)[2]]

\* The while loop of format_lp_output, from current_event_id with the path
\* built so far.  A lookup of a missing key raises KeyError; a walk that has
\* appended more ids than next_event has keys never ends.
RECURSIVE walk(_, _, _)
walk(next_event, current_event_id, path) ==
    IF ~Has(next_event, current_event_id)
    THEN [outcome |-> "KeyError", path |-> path]
    ELSE IF next_event[current_event_id] = DUMMY_EVENT_ID
    THEN [outcome |-> "returned", path |-> path]
    ELSE IF Len(path) > Cardinality(DOMAIN next_event)
    THEN [outcome |-> "loops", path |-> path]
    ELSE walk(next_event, next_event[current_event_id],
              Append(path, next_event[current_event_id]))

\* The three parts of the text: line 1, line 2, the event lines.
format_lp_output(problem, driving_hours_per_day) ==
    LET w == walk(next_event_of(problem.x), DUMMY_EVENT_ID, <<>>)
    IN  [outcome |-> w.outcome,
         objective |-> problem.objective,
         hours |-> driving_hours_per_day,
         path |-> w.path]

\* ----------------------------------------------------------------- inputs
Team(i, n) == [id |-> i, name |-> n]
\* teams.json
TeamList ==
    << Team(1, "Nashville Predators"), Team(2, "Pittsburgh Penguins"),
       Team(3, "Boston Bruins"), Team(4, "Chicago Blackhawks") >>
TeamOf(i) == TeamList[i]
\* the (home, away) pairings the season is drawn from
Pairings == <<<<2, 1>>, <<3, 1>>, <<4, 1>>, <<1, 3>>>>
\* start instants: 08:00 and 19:00 Eastern of day 0, 19:30:30 Eastern of day 2
EventTimes == <<13 * 3600, Day, 3 * Day + 1830>>
EventIds == <<"e1", "e2", "e3", "e4", "e5">>
\* a game is played at the home team's venue
Event(k, t, p) ==
    [id |-> EventIds[k], time |-> t, venue |-> p[1],
     home_team |-> TeamOf(p[1]), away_team |-> TeamOf(p[2])]
\* the games a season may hold, numbered pairing by pairing
Games == 1..(Len(EventTimes) * Len(Pairings))
Game(k, g) ==
    Event(k, EventTimes[((g - 1) % Len(EventTimes)) + 1],
          Pairings[((g - 1) \div Len(EventTimes)) + 1])
\* events.json: one list per choice of distinct games, listed by game number
\* (which is not chronological)
EventLists ==
    UNION {{[k \in 1..n |-> Game(k, c[k])] :
                c \in {d \in [1..n -> Games] :
                          \A k \in 1..(n - 1) : d[k] < d[k + 1]}} :
           n \in 0..MaxEvents}

Venues == {TeamList[i].id : i \in DOMAIN TeamList}
\* duration_matrix.json, in seconds
Seconds(v, w) ==
    CASE <<v, w>> = <<3, 4>> -> 15 * 3600 + 1
      [] <<v, w>> = <<3, 2>> -> 11 * 3600
      [] <<v, w>> = <<2, 4>> -> 9000
      [] <<v, w>> = <<4, 3>> -> 43 * 3600
      [] <<v, w>> = <<2, 3>> -> 20 * 3600
      [] OTHER -> 25 * 3600
\* distance_matrix.json, in metres
Metres(v, w) ==
    CASE <<v, w>> = <<3, 4>> -> 10
      [] <<v, w>> = <<3, 2>> -> 4
      [] <<v, w>> = <<2, 4>> -> 5
      [] OTHER -> 7

VARIABLES
    teams, events, distance_matrix, duration_matrix, team_id,
    pc, relevant_events, trip_duration_matrix, driving_distance_matrix,
    driving_duration_matrix, matchup_matrix, interested_teams, team_name,
    left, right, min_driving_hours, min_driving_solution, solves,
    trip_duration_sol, driving_hours, driving_distance_sol,
    driving_duration_sol, dirs, files, error, anomalies,
    input_dir, output_dir, main_pc, parsed, main_error, tasks, task_state,
    infeasible_teams

inputs == <<teams, events, distance_matrix, duration_matrix, team_id>>
slate == <<relevant_events, trip_duration_matrix, driving_distance_matrix,
           driving_duration_matrix, matchup_matrix, interested_teams, team_name>>
search == <<left, right, min_driving_hours, min_driving_solution, solves>>
found == <<trip_duration_sol, driving_hours>>
\* the state of main and of its pool
main == <<input_dir, output_dir, main_pc, parsed, main_error, tasks, task_state,
          infeasible_teams>>
vars == <<inputs, slate, search, pc, found, driving_distance_sol,
          driving_duration_sol, dirs, files, error, anomalies, main>>

\* the locals of run_solver before its first line
Locals ==
    /\ pc = "start"
    /\ relevant_events = <<>>
    /\ trip_duration_matrix = EmptyDict
    /\ driving_distance_matrix = EmptyDict
    /\ driving_duration_matrix = EmptyDict
    /\ matchup_matrix = EmptyDict
    /\ interested_teams = {}
    /\ team_name = ""
    /\ left = FirstHour
    /\ right = LastHour
    /\ min_driving_hours = <<>>
    /\ min_driving_solution = <<>>
    /\ solves = <<>>
    /\ trip_duration_sol = <<>>
    /\ driving_hours = <<>>
    /\ driving_distance_sol = <<>>
    /\ driving_duration_sol = <<>>
    /\ dirs = {}
    /\ files = EmptyDict
    /\ error = ""

\* main not modelled: one call of run_solver on its own
NoMain ==
    /\ input_dir = [is_dir |-> TRUE, files |-> {}, valid |-> {}]
    /\ output_dir = FALSE
    /\ main_pc = "none"
    /\ parsed = {}
    /\ main_error = <<>>
    /\ tasks = <<>>
    /\ task_state = <<>>
    /\ infeasible_teams = {}

\* the state on entry to run_solver
Entry ==
    /\ teams = TeamList
    /\ events \in EventLists
    /\ distance_matrix = [v \in Venues |-> [w \in Venues |-> IF v = w THEN 0 ELSE Metres(v, w)]]
    /\ duration_matrix = [v \in Venues |-> [w \in Venues |-> IF v = w THEN 0 ELSE Seconds(v, w)]]
    /\ team_id \in {1, 3}
    /\ Locals
    /\ NoMain

\* the solver never fails
Init == Entry /\ anomalies = 0

\* the solver may fail once, at any one of its runs
InitAnomaly == Entry /\ team_id = 1 /\ anomalies = 1

\* what one call of solve may return: the solved program or, while the solver
\* may still fail, what a failed run leaves
call_solve(slate_events, hours, durations, cost_matrix, matchups, interested) ==
    solve(slate_events, hours, durations, cost_matrix, matchups, interested)
    \cup (IF anomalies > 0
          THEN solver_anomaly(slate_events, hours, durations, cost_matrix, matchups,
                              interested)
          ELSE {})
\* the failures left after a call that returned solution
anomalies_after(solution) ==
    IF solution.status = "Not Solved" THEN anomalies - 1 ELSE anomalies

\* ------------------------------------------------------------- run_solver
\* team_name.replace(" ", "_").lower(), on the names of the team list
filesystem_friendly(name) ==
    CASE name = "Nashville Predators" -> "nashville_predators"
      [] name = "Pittsburgh Penguins" -> "pittsburgh_penguins"
      [] name = "Boston Bruins" -> "boston_bruins"
      [] name = "Chicago Blackhawks" -> "chicago_blackhawks"
      [] name = "LA Kings" -> "la_kings"
      [] name = "La Kings" -> "la_kings"
      [] OTHER -> name

Range(s) == {s[k] : k \in DOMAIN s}

\* faulty variant: the event list it is given filtered in place, so that the
\* caller's list is cut down to the slate
run_solver_setup_filters_in_place ==
    /\ pc = "start"
    /\ LET relevant == SelectSeq(events, LAMBDA event : event.away_team.id = team_id)
           name == (CHOOSE team \in Range(teams) : team.id = team_id).name
           away_opponents == {relevant[a].home_team : a \in DOMAIN relevant}
           distance_error == key_error(relevant, distance_matrix)
           duration_error == key_error(relevant, duration_matrix)
       IN  /\ relevant_events' = relevant
           /\ events' = relevant
           /\ trip_duration_matrix' = build_trip_duration_matrix(relevant)
           /\ IF distance_error # <<>>
              THEN /\ pc' = "raised"
                   /\ error' = <<"KeyError", distance_error[1]>>
                   /\ UNCHANGED <<driving_distance_matrix, driving_duration_matrix,
                                  matchup_matrix, interested_teams, team_name>>
              ELSE IF duration_error # <<>>
              THEN /\ driving_distance_matrix' =
                          build_driving_cost_matrix(relevant, distance_matrix)
                   /\ pc' = "raised"
                   /\ error' = <<"KeyError", duration_error[1]>>
                   /\ UNCHANGED <<driving_duration_matrix, matchup_matrix,
                                  interested_teams, team_name>>
              ELSE /\ driving_distance_matrix' =
                          build_driving_cost_matrix(relevant, distance_matrix)
                   /\ driving_duration_matrix' =
                          build_driving_cost_matrix(relevant, duration_matrix)
                   /\ matchup_matrix' = build_matchup_matrix(relevant)
                   /\ interested_teams' =
                          away_opponents \cap Range(remove_infeasible_teams(teams, name))
                   /\ team_name' = filesystem_friendly(name)
                   /\ pc' = "search"
                   /\ UNCHANGED error
    /\ left' = FirstHour
    /\ right' = LastHour
    /\ min_driving_hours' = <<>>
    /\ min_driving_solution' = <<>>
    /\ UNCHANGED <<main, teams, distance_matrix, duration_matrix, team_id, solves, found, driving_distance_sol, driving_duration_sol,
                   dirs, files, anomalies>>

\* run_solver up to the call of the search, and the search's first lines
run_solver_setup ==
    /\ pc = "start"
    /\ LET relevant == SelectSeq(events, LAMBDA event : event.away_team.id = team_id)
           name == (CHOOSE team \in Range(teams) : team.id = team_id).name
           away_opponents == {relevant[a].home_team : a \in DOMAIN relevant}
           distance_error == key_error(relevant, distance_matrix)
           duration_error == key_error(relevant, duration_matrix)
       IN  /\ relevant_events' = relevant
           /\ trip_duration_matrix' = build_trip_duration_matrix(relevant)
           /\ IF distance_error # <<>>
              THEN /\ pc' = "raised"
                   /\ error' = <<"KeyError", distance_error[1]>>
                   /\ UNCHANGED <<driving_distance_matrix, driving_duration_matrix,
                                  matchup_matrix, interested_teams, team_name>>
              ELSE IF duration_error # <<>>
              THEN /\ driving_distance_matrix' =
                          build_driving_cost_matrix(relevant, distance_matrix)
                   /\ pc' = "raised"
                   /\ error' = <<"KeyError", duration_error[1]>>
                   /\ UNCHANGED <<driving_duration_matrix, matchup_matrix,
                                  interested_teams, team_name>>
              ELSE /\ driving_distance_matrix' =
                          build_driving_cost_matrix(relevant, distance_matrix)
                   /\ driving_duration_matrix' =
                          build_driving_cost_matrix(relevant, duration_matrix)
                   /\ matchup_matrix' = build_matchup_matrix(relevant)
                   /\ interested_teams' =
                          away_opponents \cap Range(remove_infeasible_teams(teams, name))
                   /\ team_name' = filesystem_friendly(name)
                   /\ pc' = "search"
                   /\ UNCHANGED error
    /\ left' = FirstHour
    /\ right' = LastHour
    /\ min_driving_hours' = <<>>
    /\ min_driving_solution' = <<>>
    /\ UNCHANGED <<main, inputs, solves, found, driving_distance_sol, driving_duration_sol,
                   dirs, files, anomalies>>

\* faulty variant: right = middle after an optimal solve
binary_search_loop_keeps_middle ==
    /\ pc = "search"
    /\ left # right
    /\ LET middle == left + ceil(right - left, 2)
       IN  \E solution \in call_solve(relevant_events, middle, driving_duration_matrix,
                                      trip_duration_matrix, matchup_matrix,
                                      interested_teams) :
             /\ anomalies' = anomalies_after(solution)
             /\ solves' = Append(solves, [hours |-> middle, status |-> solution.status])
             /\ IF solution.status # "Optimal"
                THEN /\ left' = middle
                     /\ UNCHANGED <<right, min_driving_hours, min_driving_solution>>
                ELSE /\ min_driving_hours' = <<middle>>
                     /\ min_driving_solution' = <<solution>>
                     /\ right' = middle
                     /\ UNCHANGED left
    /\ UNCHANGED <<main, inputs, slate, pc, found, driving_distance_sol,
                   driving_duration_sol, dirs, files, error>>

\* one iteration of the while loop of binary_search_driving_hours
binary_search_loop ==
    /\ pc = "search"
    /\ left # right
    /\ LET middle == left + ceil(right - left, 2)
       IN  \E solution \in call_solve(relevant_events, middle, driving_duration_matrix,
                                      trip_duration_matrix, matchup_matrix,
                                      interested_teams) :
             /\ anomalies' = anomalies_after(solution)
             /\ solves' = Append(solves, [hours |-> middle, status |-> solution.status])
             /\ IF solution.status # "Optimal"
                THEN /\ left' = middle
                     /\ UNCHANGED <<right, min_driving_hours, min_driving_solution>>
                ELSE /\ min_driving_hours' = <<middle>>
                     /\ min_driving_solution' = <<solution>>
                     /\ right' = middle - 1
                     /\ UNCHANGED left
    /\ UNCHANGED <<main, inputs, slate, pc, found, driving_distance_sol,
                   driving_duration_sol, dirs, files, error>>

\* faulty variant: the search's bare RuntimeError let through
infeasible_error_bare(name) == <<"RuntimeError">>

\* the error run_solver raises when the search raises
infeasible_error(name) == <<"No feasible trip found for team", name>>

\* faulty variant: the last solve used only when the loop found nothing
min_hours_after_keeps_found(solution, hours, min_hours) ==
    IF min_hours # <<>> THEN min_hours
    ELSE IF solution.status = "Optimal" THEN <<hours>> ELSE min_hours

\* faulty variant: the status of the last solve not looked at
min_hours_after_unchecked(solution, hours, min_hours) == <<hours>>

\* faulty variant: the model found by the loop kept when the last solve is
\* optimal too
min_solution_after_keeps_found(solution, min_solution) ==
    IF min_solution # <<>> THEN min_solution
    ELSE IF solution.status = "Optimal" THEN <<solution>> ELSE min_solution

\* the last lines of the search: what the solve at left adds to the result
min_hours_after(solution, hours, min_hours) ==
    IF solution.status = "Optimal" THEN <<hours>> ELSE min_hours
min_solution_after(solution, min_solution) ==
    IF solution.status = "Optimal" THEN <<solution>> ELSE min_solution

\* the search after its loop: the last solve, then raise or return; a raise
\* is caught by run_solver and raised again with the team's name
binary_search_return ==
    /\ pc = "search"
    /\ left = right
    /\ \E solution \in call_solve(relevant_events, left, driving_duration_matrix,
                                  trip_duration_matrix, matchup_matrix,
                                  interested_teams) :
         LET hours == min_hours_after(solution, left, min_driving_hours)
             best == min_solution_after(solution, min_driving_solution)
         IN  /\ anomalies' = anomalies_after(solution)
             /\ solves' = Append(solves, [hours |-> left, status |-> solution.status])
             /\ min_driving_hours' = hours
             /\ min_driving_solution' = best
             /\ IF hours = <<>>
                THEN /\ pc' = "raised"
                     /\ error' = infeasible_error(team_name)
                     /\ UNCHANGED <<trip_duration_sol, driving_hours>>
                ELSE /\ pc' = "trip_duration"
                     /\ trip_duration_sol' = best
                     /\ driving_hours' = hours
                     /\ UNCHANGED error
    /\ UNCHANGED <<main, inputs, slate, left, right, driving_distance_sol,
                   driving_duration_sol, dirs, files>>

\* Path.write_text(format_lp_output(...)): the text is built first, so a
\* walk that raises leaves no file
write_text(name, problem) ==
    LET text == format_lp_output(problem, driving_hours[1])
    IN  IF text.outcome = "returned"
        THEN /\ files' = Put(files, <<team_name, name>>, text)
             /\ error' = error
        ELSE /\ files' = files
             /\ error' = <<text.outcome, team_name>>

write_trip_duration ==
    /\ pc = "trip_duration"
    /\ dirs' = dirs \cup {team_name}
    /\ write_text("trip_duration.txt", trip_duration_sol[1])
    /\ pc' = IF error' = error THEN "driving_distance" ELSE "raised"
    /\ UNCHANGED <<main, inputs, slate, search, found, driving_distance_sol,
                   driving_duration_sol, anomalies>>

\* faulty variant: the distance program solved at the largest cap instead of
\* the cap the search returned
write_driving_distance_at_last_hour ==
    /\ pc = "driving_distance"
    /\ \E sol \in
            call_solve(relevant_events, LastHour, driving_duration_matrix,
                       driving_distance_matrix, matchup_matrix, interested_teams) :
         /\ anomalies' = anomalies_after(sol)
         /\ driving_distance_sol' = <<sol>>
         /\ write_text("driving_distance.txt", sol)
    /\ pc' = IF error' = error THEN "driving_duration" ELSE "raised"
    /\ UNCHANGED <<main, inputs, slate, search, found, driving_duration_sol, dirs>>

write_driving_distance ==
    /\ pc = "driving_distance"
    /\ \E sol \in
            call_solve(relevant_events, driving_hours[1], driving_duration_matrix,
                       driving_distance_matrix, matchup_matrix, interested_teams) :
         /\ anomalies' = anomalies_after(sol)
         /\ driving_distance_sol' = <<sol>>
         /\ write_text("driving_distance.txt", sol)
    /\ pc' = IF error' = error THEN "driving_duration" ELSE "raised"
    /\ UNCHANGED <<main, inputs, slate, search, found, driving_duration_sol, dirs>>

write_driving_duration ==
    /\ pc = "driving_duration"
    /\ \E sol \in
            call_solve(relevant_events, driving_hours[1], driving_duration_matrix,
                       driving_duration_matrix, matchup_matrix, interested_teams) :
         /\ anomalies' = anomalies_after(sol)
         /\ driving_duration_sol' = <<sol>>
         /\ write_text("driving_duration.txt", sol)
    /\ pc' = IF error' = error THEN "done" ELSE "raised"
    /\ UNCHANGED <<main, inputs, slate, search, found, driving_distance_sol, dirs>>

Next ==
    \/ run_solver_setup
    \/ binary_search_loop
    \/ binary_search_return
    \/ write_trip_duration
    \/ write_driving_distance
    \/ write_driving_duration

Spec == Init /\ [][Next]_vars

\* the run with a solver that may fail once
SpecAnomaly == InitAnomaly /\ [][Next]_vars

\* the solver may fail at every one of its runs, so that the statuses the
\* search sees need not be monotone in H; on a slate of one event, which
\* every H allows, the search can see every sequence of statuses
InitUnreliable ==
    Entry /\ Len(events) < MaxEvents /\ team_id = 1 /\ anomalies = LastHour

\* the run with a solver that may fail at any run
SpecUnreliable == InitUnreliable /\ [][Next]_vars

\* the venue pairs a route matrix file may lack: a drive between two venues
\* and the entry of a venue with itself (two events at one venue)
Gaps == {<<3, 4>>, <<2, 2>>}
\* a route matrix without the entries of Gaps
gapped(route_matrix) ==
    [v \in DOMAIN route_matrix |->
        [w \in {u \in DOMAIN route_matrix[v] : <<v, u>> \notin Gaps} |->
            route_matrix[v][w]]]
\* the two files are computed separately, so either of them may be the
\* incomplete one
InitGaps ==
    /\ teams = TeamList
    /\ events \in EventLists
    /\ \E distance_gaps, duration_gaps \in BOOLEAN :
          /\ distance_gaps # duration_gaps
          /\ distance_matrix =
                IF distance_gaps
                THEN gapped([v \in Venues |-> [w \in Venues |->
                                IF v = w THEN 0 ELSE Metres(v, w)]])
                ELSE [v \in Venues |-> [w \in Venues |->
                                IF v = w THEN 0 ELSE Metres(v, w)]]
          /\ duration_matrix =
                IF duration_gaps
                THEN gapped([v \in Venues |-> [w \in Venues |->
                                IF v = w THEN 0 ELSE Seconds(v, w)]])
                ELSE [v \in Venues |-> [w \in Venues |->
                                IF v = w THEN 0 ELSE Seconds(v, w)]]
    /\ team_id = 1
    /\ Locals
    /\ NoMain
    /\ anomalies = 0

\* the run on route matrices with missing entries
SpecGaps == InitGaps /\ [][Next]_vars

\* ------------------------------------------------------------------- main
\* the files main requires, in the order it looks for them, and the order it
\* parses them in
RequiredFiles ==
    <<"distance_matrix.json", "duration_matrix.json", "events.json", "teams.json">>
ParseOrder ==
    <<"teams.json", "events.json", "distance_matrix.json", "duration_matrix.json">>
\* the first entry of a list of files that is not in a set, if any
first_not_in(list, S) ==
    LET missing == {k \in DOMAIN list : list[k] \notin S}
    IN  IF missing = {} THEN <<>>
        ELSE <<list[CHOOSE k \in missing : \A l \in missing : k <= l]>>

\* teams.json with n teams, named so that the directory name is the name
Roster(n) == [i \in 1..n |-> Team(i, "team" \o ToString(i))]
\* team names of which two differ in the case of one letter only
Lookalikes == {"LA Kings", "La Kings", "team1"}
\* the state a run_solver task does not share with main
worker == <<slate, search, pc, found, driving_distance_sol, driving_duration_sol,
            error, anomalies>>
\* the text run_solver computes for a team's result file from the parsed inputs
text_of(id, name) == <<"itinerary", id, name>>
ResultFiles == {"trip_duration.txt", "driving_distance.txt", "driving_duration.txt"}

\* main is started on an input directory that may lack files or hold files
\* that do not parse; which teams have no feasible trip is a property of the
\* parsed data
InitMain ==
    /\ \E n \in 0..MaxTeams : teams = Roster(n)
    /\ events = <<>>
    /\ distance_matrix = [v \in Venues |-> [w \in Venues |-> IF v = w THEN 0 ELSE Metres(v, w)]]
    /\ duration_matrix = [v \in Venues |-> [w \in Venues |-> IF v = w THEN 0 ELSE Seconds(v, w)]]
    /\ team_id = 0
    /\ Locals
    /\ anomalies = 0
    /\ input_dir \in {[is_dir |-> d, files |-> F, valid |-> V] :
                        d \in BOOLEAN, F \in SUBSET Range(RequiredFiles),
                        V \in SUBSET Range(RequiredFiles)}
    /\ input_dir.valid \subseteq input_dir.files
    /\ ~input_dir.is_dir => input_dir.files = {}
    /\ output_dir = FALSE
    /\ main_pc = "start"
    /\ parsed = {}
    /\ main_error = <<>>
    /\ tasks = <<>>
    /\ task_state = <<>>
    /\ infeasible_teams \in SUBSET {teams[i].id : i \in DOMAIN teams}
    /\ Cardinality(infeasible_teams) <= 2

\* faulty variant: only the directory is checked, not the files in it
main_validate_directory_only ==
    /\ main_pc = "start"
    /\ IF ~input_dir.is_dir
       THEN main_pc' = "raised" /\ main_error' = <<"ValueError", "input_dir">>
       ELSE main_pc' = "load" /\ main_error' = main_error
    /\ UNCHANGED <<inputs, worker, dirs, files, input_dir, output_dir, parsed, tasks,
                   task_state, infeasible_teams>>

\* main, lines 216-231: the checks of the input directory
main_validate ==
    /\ main_pc = "start"
    /\ LET missing == first_not_in(RequiredFiles, input_dir.files)
       IN  IF ~input_dir.is_dir
           THEN main_pc' = "raised" /\ main_error' = <<"ValueError", "input_dir">>
           ELSE IF missing # <<>>
           THEN main_pc' = "raised" /\ main_error' = <<"ValueError", missing[1]>>
           ELSE main_pc' = "load" /\ main_error' = main_error
    /\ UNCHANGED <<inputs, worker, dirs, files, input_dir, output_dir, parsed, tasks,
                   task_state, infeasible_teams>>

\* Pool._map_async: the length of the chunks a task list of n entries is cut
\* into (len(iterable) over 4 * the pool size, rounded up)
chunksize(n) == IF n = 0 THEN 0 ELSE ceil(n, Processes * 4)
chunk_of(i) == (i - 1) \div chunksize(Len(tasks)) + 1
first_of_chunk(i) == i = 1 \/ chunk_of(i) # chunk_of(i - 1)
running == {i \in DOMAIN task_state : task_state[i] = "running"}

\* main, lines 233-254: output_dir is made, the four files are parsed, the
\* pool is created and starmap hands it one task per team
main_load ==
    /\ main_pc = "load"
    /\ output_dir' = TRUE
    /\ LET invalid == first_not_in(ParseOrder, input_dir.valid)
       IN  IF invalid # <<>>
           THEN /\ parsed' = {ParseOrder[k] : k \in
                                {l \in DOMAIN ParseOrder :
                                    \A m \in 1..l : ParseOrder[m] \in input_dir.valid}}
                /\ main_pc' = "raised"
                /\ main_error' = <<"ValidationError", invalid[1]>>
                /\ UNCHANGED <<tasks, task_state>>
           ELSE /\ parsed' = Range(ParseOrder)
                /\ main_pc' = "starmap"
                /\ tasks' = [i \in DOMAIN teams |-> teams[i].id]
                /\ task_state' = [i \in DOMAIN teams |-> "queued"]
                /\ UNCHANGED main_error
    /\ UNCHANGED <<inputs, worker, dirs, files, input_dir, infeasible_teams>>

\* an idle worker process takes the next chunk off the queue and calls
\* run_solver for the chunk's first team
worker_start ==
    /\ main_pc = "starmap"
    /\ Cardinality(running) < Processes
    /\ \E i \in DOMAIN tasks :
         /\ task_state[i] = "queued"
         /\ first_of_chunk(i)
         /\ \A j \in 1..(i - 1) : first_of_chunk(j) => task_state[j] # "queued"
         /\ task_state' = [task_state EXCEPT ![i] = "running"]
    /\ UNCHANGED <<inputs, worker, dirs, files, input_dir, output_dir, main_pc,
                   parsed, main_error, tasks, infeasible_teams>>

\* the files there are after run_solver returned for team number i
files_after(i) ==
    [f \in DOMAIN files \cup ({filesystem_friendly(teams[i].name)} \X ResultFiles) |->
        IF f[1] = filesystem_friendly(teams[i].name)
        THEN text_of(tasks[i], f[2]) ELSE files[f]]

\* run_solver ends in a worker: it returns, and the worker goes on to the
\* next team of its chunk, or it raises, and the rest of the chunk is not run
\* (starmapstar runs a chunk as one list(itertools.starmap(...)))
worker_finish ==
    /\ main_pc = "starmap"
    /\ \E i \in running :
         IF tasks[i] \in infeasible_teams
         THEN /\ task_state' =
                    [j \in DOMAIN task_state |->
                        IF j = i THEN "raised"
                        ELSE IF j > i /\ chunk_of(j) = chunk_of(i) THEN "dropped"
                        ELSE task_state[j]]
              /\ UNCHANGED <<dirs, files>>
         ELSE /\ task_state' =
                    [j \in DOMAIN task_state |->
                        IF j = i THEN "returned"
                        ELSE IF j = i + 1 /\ chunk_of(j) = chunk_of(i) THEN "running"
                        ELSE task_state[j]]
              /\ dirs' = dirs \cup {filesystem_friendly(teams[i].name)}
              /\ files' = files_after(i)
    /\ UNCHANGED <<inputs, worker, input_dir, output_dir, main_pc, parsed,
                   main_error, tasks, infeasible_teams>>

\* starmap ends once every chunk has reported: it returns (and main closes
\* and joins the pool) or raises the error of a chunk that failed
main_finish ==
    /\ main_pc = "starmap"
    /\ \A i \in DOMAIN task_state : task_state[i] \in {"returned", "raised", "dropped"}
    /\ IF \E i \in DOMAIN task_state : task_state[i] = "raised"
       THEN /\ main_pc' = "raised"
            /\ \E i \in DOMAIN task_state :
                  /\ task_state[i] = "raised"
                  /\ main_error' = infeasible_error(filesystem_friendly(teams[i].name))
       ELSE /\ main_pc' = "returned"
            /\ UNCHANGED main_error
    /\ UNCHANGED <<inputs, worker, dirs, files, input_dir, output_dir, parsed, tasks,
                   task_state, infeasible_teams>>

NextMain ==
    \/ main_validate
    \/ main_load
    \/ worker_start
    \/ worker_finish
    \/ main_finish

SpecMain == InitMain /\ [][NextMain]_vars

\* main is started on a teams.json of up to two teams with distinct names
\* out of Lookalikes
InitLookalikes ==
    /\ teams \in {<<>>}
          \cup {<<Team(1, a)>> : a \in Lookalikes}
          \cup {<<Team(1, n[1]), Team(2, n[2])>> :
                  n \in {m \in Lookalikes \X Lookalikes : m[1] # m[2]}}
    /\ events = <<>>
    /\ distance_matrix = [v \in Venues |-> [w \in Venues |-> IF v = w THEN 0 ELSE Metres(v, w)]]
    /\ duration_matrix = [v \in Venues |-> [w \in Venues |-> IF v = w THEN 0 ELSE Seconds(v, w)]]
    /\ team_id = 0
    /\ Locals
    /\ anomalies = 0
    /\ input_dir \in {[is_dir |-> d, files |-> F, valid |-> V] :
                        d \in BOOLEAN, F \in SUBSET Range(RequiredFiles),
                        V \in SUBSET Range(RequiredFiles)}
    /\ input_dir.valid \subseteq input_dir.files
    /\ ~input_dir.is_dir => input_dir.files = {}
    /\ output_dir = FALSE
    /\ main_pc = "start"
    /\ parsed = {}
    /\ main_error = <<>>
    /\ tasks = <<>>
    /\ task_state = <<>>
    /\ infeasible_teams \in SUBSET {teams[i].id : i \in DOMAIN teams}

\* main on team lists with names that look alike
SpecLookalikes == InitLookalikes /\ [][NextMain]_vars

\* ----------------------------------------------------------------- claims
\* the status solve returns for the team's trip-duration program at cap h
status_at(h) ==
    (CHOOSE problem \in solve(relevant_events, h, driving_duration_matrix,
                              trip_duration_matrix, matchup_matrix,
                              interested_teams) : TRUE).status
\* the edge variables of the team's programs, cap by cap (@@ << >> makes an
\* explicit table of the function, evaluated once)
edges_at == [h \in Hours |->
                create_edge_variables(relevant_events, h, driving_duration_matrix)] @@ << >>
\* the caps at which the team's program can be satisfied; the constraints
\* depend on the cap through the edge variables alone
satisfiable_hours ==
    LET E == edges_at
        sat == {<<e, feasible(relevant_events, e, matchup_matrix, interested_teams) # {}>> :
                    e \in {E[h] : h \in Hours}}
    IN  {h \in Hours : <<E[h], TRUE>> \in sat}
\* the caps at which solve returns optimal status
optimal_hours ==
    LET E == edges_at
        st == {<<e, status_of(feasible(relevant_events, e, matchup_matrix,
                                       interested_teams))>> :
                    e \in {E[h] : h \in Hours}}
    IN  {h \in Hours : <<E[h], "Optimal">> \in st}
event_of(i) == relevant_events[Idx(relevant_events, i)]
written == DOMAIN files
\* the consecutive pairs of events of an itinerary
legs(path) == {<<path[k], path[k + 1]>> : k \in 1..(Len(path) - 1)}

\* C1: when the status of solve is monotone in H (optimal at H implies
\* optimal at every larger H), the search returns the smallest H of 1..24 at
\* which solve is optimal: solve is optimal at the returned H, and the
\* returned H is 1 or solve is not optimal at H - 1.
C1_SearchReturnsSmallestH ==
    pc = "trip_duration" =>
        LET optimal == optimal_hours
            H == driving_hours[1]
        IN  (\A h \in optimal : \A k \in Hours : h < k => k \in optimal) =>
                /\ H \in optimal
                /\ H = FirstHour \/ H - 1 \notin optimal
                /\ \A h \in Hours : h < H => h \notin optimal
                /\ trip_duration_sol[1].status = "Optimal"
                /\ trip_duration_sol[1].hours = H

C1_Witness ==
    /\ pc = "trip_duration"
    /\ driving_hours[1] = 8
    /\ status_at(7) # "Optimal"
    /\ status_at(8) = "Optimal"

\* C2: every itinerary that run_solver writes (trip duration, driving
\* distance, driving duration) lists, for every resolved team of interest,
\* at least one event in which that team is the home or the away team.
C2_Coverage ==
    \A f \in written : \A team \in interested_teams :
        \E k \in DOMAIN files[f].path :
            team.id \in {event_of(files[f].path[k]).home_team.id,
                         event_of(files[f].path[k]).away_team.id}

C2_Witness ==
    /\ pc = "done"
    /\ Cardinality(written) = 3
    /\ Cardinality(interested_teams) = 2
    /\ Len(relevant_events) = 3

\* C3: in every written itinerary each listed event starts strictly later
\* than the event listed before it.
C3_Chronological ==
    \A f \in written : \A l \in legs(files[f].path) :
        event_of(l[1]).time < event_of(l[2]).time

C3_Witness ==
    /\ pc = "done"
    /\ Cardinality(written) = 3
    /\ \A f \in written : Len(files[f].path) >= 2

\* C4: for every consecutive pair (i, j) of a written itinerary the driving
\* duration from i to j, rounded up to whole minutes, is at most
\* available_driving_time(i, j, H) for the H on line 2 of the same file.
C4_DrivingFeasible ==
    \A f \in written : \A l \in legs(files[f].path) :
        ceil(driving_duration_matrix[l[1]][l[2]], 60)
            <= available_driving_time(event_of(l[1]), event_of(l[2]), files[f].hours)

\* a written leg that the cap one hour lower would not allow
C4_Witness ==
    /\ pc = "done"
    /\ \E f \in written : \E l \in legs(files[f].path) :
        /\ files[f].hours > FirstHour
        /\ ceil(driving_duration_matrix[l[1]][l[2]], 60)
             > available_driving_time(event_of(l[1]), event_of(l[2]),
                                      files[f].hours - 1)

\* C5: when solve is not optimal at any H of 1..24, the search raises and
\* returns nothing, run_solver fails with an error that names the team, and
\* neither a directory nor a result file exists for the team.
C5_TotalInfeasibility ==
    (/\ pc \notin {"start", "search"}
     /\ status_at(LastHour) # "Optimal"
     /\ optimal_hours = {}) =>
        /\ pc = "raised"
        /\ error = <<"No feasible trip found for team", team_name>>
        /\ trip_duration_sol = <<>> /\ driving_hours = <<>>
        /\ team_name \notin dirs
        /\ written = {}

C5_Witness ==
    /\ pc = "raised"
    /\ error = <<"No feasible trip found for team", "nashville_predators">>
    /\ Len(relevant_events) = 3
    /\ \A k \in DOMAIN solves : solves[k].status # "Optimal"

\* C7: for all events i, j and all caps H < H' of 1..24,
\* available_driving_time(i, j, H) <= available_driving_time(i, j, H'); so
\* every edge variable created at H is created at H', and a team whose tour
\* and coverage constraints can be satisfied at H can satisfy them at H'.
C7_Monotone ==
    (pc = "search" /\ solves = <<>>) =>
        LET E == edges_at
            F == satisfiable_hours
            A == [p \in permutations(events) |-> [h \in Hours |->
                    available_driving_time(events[p[1]], events[p[2]], h)] @@ << >>] @@ << >>
        IN  \A h \in Hours : \A k \in Hours : h < k =>
                /\ \A p \in permutations(events) : A[p][h] <= A[p][k]
                /\ E[h] \subseteq E[k]
                /\ h \in F => k \in F

\* a slate whose availability and edge set grow with H and that becomes
\* satisfiable only at a larger H
C7_Witness ==
    /\ pc = "search" /\ solves = <<>>
    /\ \E p \in permutations(relevant_events) :
          available_driving_time(relevant_events[p[1]], relevant_events[p[2]], 5)
            < available_driving_time(relevant_events[p[1]], relevant_events[p[2]], 6)
    /\ create_edge_variables(relevant_events, 5, driving_duration_matrix)
         # create_edge_variables(relevant_events, 6, driving_duration_matrix)
    /\ status_at(5) # "Optimal"
    /\ status_at(6) = "Optimal"

\* C6: for a team whose away slate holds no event (so no team of interest
\* and no coverage constraint), the search ends by reporting infeasibility;
\* it never returns a solved model with optimal status and an empty
\* itinerary as a success.
C6_EmptySlateIsInfeasible ==
    (relevant_events = <<>> /\ pc \notin {"start", "search"}) =>
        /\ pc = "raised"
        /\ error = <<"No feasible trip found for team", team_name>>
        /\ trip_duration_sol = <<>>

\* the earliest departure after an event and the latest arrival before one,
\* on the Eastern wall clock
earliest_departure(event) == astimezone(event.time) + (AVG_EVENT_LENGTH + 60) * 60
latest_arrival(event) == astimezone(event.time) - 3600
\* the calendar days from the departure day through the arrival day
calendar_days(event_1, event_2) ==
    (strip_datetime(latest_arrival(event_2))
       - strip_datetime(earliest_departure(event_1))) \div Day + 1

\* C8: for events i before j no calendar day contributes more than 60*H
\* minutes: available_driving_time(i, j, H) <= 60*H times the number of
\* calendar days from the departure day through the arrival day, also when
\* both fall on the same day.
C8_PerDayBudget ==
    \A p \in permutations(events) : \A h \in Hours :
        events[p[1]].time < events[p[2]].time =>
            available_driving_time(events[p[1]], events[p[2]], h)
                <= 60 * h * calendar_days(events[p[1]], events[p[2]])

\* the matrix cost of a selection, without the 1 per edge
RECURSIVE matrix_cost(_, _)
matrix_cost(x, cost_matrix) ==
    IF x = {} THEN 0
    ELSE LET e == CHOOSE v \in x : TRUE
         IN  cost_matrix[e[1]][e[2]] + matrix_cost(x \ {e}, cost_matrix)

\* the three solved programs of a finished run, each with its cost matrix
solved ==
    {<<trip_duration_sol[1], trip_duration_matrix>>,
     <<driving_distance_sol[1], driving_distance_matrix>>,
     <<driving_duration_sol[1], driving_duration_matrix>>}
selections(problem) ==
    feasible(relevant_events, problem.variables, matchup_matrix, interested_teams)

\* C9 as stated: the selection solve returns has the least matrix cost among
\* the selections that satisfy the tour and coverage constraints at the same
\* H, and the fewest edges among those of least matrix cost.
C9_MinimizesMatrixCost ==
    pc = "done" =>
        \A s \in solved : \A y \in selections(s[1]) :
            \/ matrix_cost(s[1].x, s[2]) < matrix_cost(y, s[2])
            \/ /\ matrix_cost(s[1].x, s[2]) = matrix_cost(y, s[2])
               /\ Cardinality(s[1].x) <= Cardinality(y)

\* C9 (amended): the selection solve returns satisfies the tour and coverage
\* constraints and has the least sum of (matrix cost + 1) over its edges
\* among the selections that satisfy them at the same H, and that sum is the
\* objective value of the solved program.
C9_MinimizesCostPlusEdges ==
    pc = "done" =>
        \A s \in solved :
            /\ s[1].status = "Optimal"
            /\ s[1].x \in selections(s[1])
            /\ s[1].objective = matrix_cost(s[1].x, s[2]) + Cardinality(s[1].x)
            /\ \A y \in selections(s[1]) :
                   matrix_cost(s[1].x, s[2]) + Cardinality(s[1].x)
                     <= matrix_cost(y, s[2]) + Cardinality(y)

\* a finished run whose distance program has a selection of lower matrix
\* cost and more edges than the one returned
C9_Witness ==
    /\ pc = "done"
    /\ \E y \in selections(driving_distance_sol[1]) :
          /\ matrix_cost(y, driving_distance_matrix)
               < matrix_cost(driving_distance_sol[1].x, driving_distance_matrix)
          /\ Cardinality(y) > Cardinality(driving_distance_sol[1].x)

\* every edge variable of the slate, whatever the cap
all_edges == UNION {edges_at[h] : h \in Hours}
\* a solved program over the edge variables V with assignment x
assigned(V, x) ==
    [status |-> "Optimal", hours |-> LastHour, variables |-> V, x |-> x,
     objective |-> 0]

\* C10: for a 0/1 assignment that satisfies the tour constraints and selects
\* at least one edge, the walk of format_lp_output from the dummy node ends
\* by returning to the dummy node, and the event lines are exactly the real
\* events with a selected incoming edge, each once, in successor order; the
\* dummy id is not among them.
C10_WalkIsThePath ==
    (pc = "search" /\ solves = <<>>) =>
        LET V == all_edges
        IN  \A x \in SUBSET V :
                (add_tour_constraints(x, relevant_events) /\ x # {}) =>
                    LET text == format_lp_output(assigned(V, x), LastHour)
                        path == text.path
                    IN  /\ text.outcome = "returned"
                        /\ DUMMY_EVENT_ID \notin Range(path)
                        /\ Range(path) = {e[2] : e \in x} \ {DUMMY_EVENT_ID}
                        /\ Len(path) = Cardinality(Range(path))
                        /\ \A k \in DOMAIN path :
                              <<IF k = 1 THEN DUMMY_EVENT_ID ELSE path[k - 1],
                                path[k]>> \in x
                        /\ <<path[Len(path)], DUMMY_EVENT_ID>> \in x

\* a slate with an assignment through three real events
C10_Witness ==
    /\ pc = "search" /\ solves = <<>>
    /\ LET V == all_edges
       IN  \E x \in SUBSET V :
              /\ add_tour_constraints(x, relevant_events)
              /\ Len(format_lp_output(assigned(V, x), LastHour).path) = 3

\* the log of one run of the search from the interval left..right, read from
\* its k-th solve on
RECURSIVE one_search(_, _, _, _)
one_search(log, k, l, r) ==
    /\ k <= Len(log)
    /\ IF l = r THEN k = Len(log) /\ log[k].hours = l
       ELSE LET middle == l + ceil(r - l, 2)
            IN  /\ log[k].hours = middle
                /\ IF log[k].status # "Optimal"
                   THEN one_search(log, k + 1, middle, r)
                   ELSE one_search(log, k + 1, l, middle - 1)
\* the three solved programs of a finished run
programs == {trip_duration_sol[1], driving_distance_sol[1], driving_duration_sol[1]}

\* C11: a finished run has searched exactly once (its solves are those of
\* one search from 1..24); the distance and duration programs were solved
\* with the H the search returned and have the edge variables of the
\* trip-duration program, the three programs have the same satisfying
\* selections, and the three files carry that H on line 2.
C11_OneSearchThenSameH ==
    pc = "done" =>
        /\ one_search(solves, 1, FirstHour, LastHour)
        /\ \A problem \in programs :
              /\ problem.hours = driving_hours[1]
              /\ problem.variables = trip_duration_sol[1].variables
              /\ selections(problem) = selections(trip_duration_sol[1])
        /\ Cardinality(written) = 3
        /\ \A f \in written : files[f].hours = driving_hours[1]

\* a finished run whose search needed five solves and returned H = 8
C11_Witness ==
    /\ pc = "done"
    /\ Len(solves) = 5
    /\ driving_hours = <<8>>
    /\ Cardinality(written) = 3

\* the solved program each result file is written from
source_of(name) ==
    CASE name = "trip_duration.txt" -> trip_duration_sol
      [] name = "driving_distance.txt" -> driving_distance_sol
      [] name = "driving_duration.txt" -> driving_duration_sol

\* C12: a solve whose status is not optimal never yields a written
\* itinerary: each result file that exists was written from a solved program
\* whose status is optimal, the two follow-up programs included.
C12_WrittenOnlyFromOptimal ==
    \A f \in written : source_of(f[2])[1].status = "Optimal"

\* main has returned or raised
main_ended == main_pc \in {"returned", "raised"}
\* the entries of the task list whose team has a feasible trip
feasible_tasks == {i \in DOMAIN tasks : tasks[i] \notin infeasible_teams}

\* C13: when run_solver fails for a team with total infeasibility, the task
\* of every other team still runs to completion, and at the end of main each
\* team with a feasible trip has its three result files, with the content
\* run_solver computes for that team alone.
C13_OtherTeamsComplete ==
    (main_ended /\ tasks # <<>>) =>
        \A i \in feasible_tasks :
            /\ task_state[i] = "returned"
            /\ \A name \in ResultFiles :
                  /\ <<filesystem_friendly(teams[i].name), name>> \in written
                  /\ files[<<filesystem_friendly(teams[i].name), name>>]
                       = text_of(tasks[i], name)

\* C14: main starts exactly one run_solver task for each entry of the team
\* list (at its end every entry's task has returned or raised), never more
\* than the pool's size run at the same time, and main ends only when no
\* started task is still running.
C14_OneTaskPerTeam ==
    /\ Cardinality(running) <= Processes
    /\ main_ended => running = {}
    /\ (main_ended /\ parsed = Range(ParseOrder)) =>
          /\ Len(tasks) = Len(teams)
          /\ \A i \in DOMAIN tasks :
                tasks[i] = teams[i].id /\ task_state[i] \in {"returned", "raised"}

\* the pool has been created and handed the team tasks
scheduled == main_pc \in {"starmap", "returned"} \/ tasks # <<>> \/ task_state # <<>>
\* what main finds missing first: the directory, or a required file
first_missing ==
    IF ~input_dir.is_dir THEN <<"input_dir">>
    ELSE first_not_in(RequiredFiles, input_dir.files)

\* C15: team tasks are scheduled only when input_dir is a directory, the four
\* required files are in it and all four have been parsed; when the directory
\* or a required file is missing, main ends by raising an error that names
\* what is missing, output_dir is never created and nothing is scheduled.
C15_ValidatedBeforeScheduling ==
    /\ scheduled =>
          /\ input_dir.is_dir
          /\ Range(RequiredFiles) \subseteq input_dir.files
          /\ parsed = Range(RequiredFiles)
    /\ first_missing # <<>> =>
          /\ ~output_dir /\ ~scheduled /\ parsed = {} /\ dirs = {} /\ written = {}
          /\ main_pc \in {"start", "raised"}
          /\ main_pc = "raised" => main_error = <<"ValueError", first_missing[1]>>

\* main raised because events.json is missing from a directory that holds
\* the two matrices
C15_Witness ==
    /\ main_pc = "raised"
    /\ main_error = <<"ValueError", "events.json">>
    /\ input_dir.files = {"distance_matrix.json", "duration_matrix.json", "teams.json"}
    /\ ~output_dir

\* the sequences of k distinct real events of the slate
orderings(k) ==
    {p \in [1..k -> Ids(relevant_events)] : \A a, b \in 1..k : a # b => p[a] # p[b]}
\* the edges of the cycle dummy -> p[1] -> ... -> p[k] -> dummy
cycle_edges(p) ==
    {<<IF a = 0 THEN DUMMY_EVENT_ID ELSE p[a],
       IF a = Len(p) THEN DUMMY_EVENT_ID ELSE p[a + 1]>> : a \in 0..Len(p)}
\* the edge sets of the simple cycles through the dummy node
simple_cycles ==
    UNION {{cycle_edges(p) : p \in orderings(k)} : k \in 1..Len(relevant_events)}

\* C16: every 0/1 assignment over the slate's edge variables that satisfies
\* the tour constraints selects no edge or exactly the edges of one simple
\* cycle through the dummy node; it selects no cycle of real events only,
\* and every real event has at most one selected edge in and one out.
C16_EmptyOrOneCycle ==
    (pc = "search" /\ solves = <<>>) =>
        LET V == all_edges
            C == simple_cycles
        IN  \A x \in SUBSET V :
                add_tour_constraints(x, relevant_events) =>
                    /\ x = {} \/ x \in C
                    /\ x # {} => \E e \in x : e[1] = DUMMY_EVENT_ID
                    /\ \A i \in Ids(relevant_events) :
                          /\ in_degree(x, i) = out_degree(x, i)
                          /\ in_degree(x, i) \in {0, 1}

\* a slate of three events with an assignment that visits two of them and
\* leaves the third unvisited
C16_Witness ==
    /\ pc = "search" /\ solves = <<>>
    /\ Len(relevant_events) = 3
    /\ \E x \in SUBSET all_edges :
          /\ add_tour_constraints(x, relevant_events)
          /\ Cardinality(x) = 3
          /\ \E i \in Ids(relevant_events) : in_degree(x, i) = 0

\* the whole minutes between the earliest departure after event_1 and the
\* latest arrival before event_2, 0 when the arrival is not after the departure
window_minutes(event_1, event_2) ==
    Max((latest_arrival(event_2) - earliest_departure(event_1)) \div 60, 0)

\* C17: for events i before j, available_driving_time(i, j, H) is never more
\* than the minutes between the earliest departure (time(i) + event length +
\* 60 minutes) and the latest arrival (time(j) - 60 minutes), and is 0 when
\* the latest arrival is not after the earliest departure.
C17_WithinDepartureArrivalWindow ==
    \A p \in permutations(events) : \A h \in Hours :
        events[p[1]].time < events[p[2]].time =>
            available_driving_time(events[p[1]], events[p[2]], h)
                <= window_minutes(events[p[1]], events[p[2]])

\* the ordered pairs (i, j) of events of the slate with time(i) < time(j)
forward_pairs ==
    {p \in permutations(relevant_events) :
        relevant_events[p[1]].time < relevant_events[p[2]].time}

\* C18: for every pair of events (i, j) of the slate with time(i) < time(j),
\* the trip-duration cost run_solver uses is the difference of the two
\* events' calendar dates on the Eastern wall clock, the value
\* compute_total_duration_matrix gives for the pair, and is >= 0.
C18_TripDurationInEasternDays ==
    pc # "start" =>
        \A p \in forward_pairs :
            LET i == relevant_events[p[1]]
                j == relevant_events[p[2]]
            IN  /\ trip_duration_matrix[i.id][j.id]
                     = date(astimezone(j.time)) - date(astimezone(i.time))
                /\ trip_duration_matrix[i.id][j.id]
                     = compute_total_duration_matrix(relevant_events)[i.id][j.id]
                /\ trip_duration_matrix[i.id][j.id] >= 0

\* a driving-duration matrix over the slate in which every drive takes no time
no_driving == [i \in DOMAIN driving_duration_matrix |->
                  [j \in DOMAIN driving_duration_matrix[i] |-> 0]]

\* C19: for any two events i, j of the slate and any H, create_edge_variables
\* defines at most one of x_ij and x_ji and never x_ii, and an edge between
\* two events only from the strictly earlier to the strictly later one;
\* availability is -1 when time(i) >= time(j), so this also holds when
\* every required driving time is zero.
C19_ForwardEdgesOnly ==
    (pc = "search" /\ solves = <<>>) =>
        \A h \in Hours :
            \A V \in {create_edge_variables(relevant_events, h, driving_duration_matrix),
                      create_edge_variables(relevant_events, h, no_driving)} :
                \A a, b \in DOMAIN relevant_events :
                    LET i == relevant_events[a]
                        j == relevant_events[b]
                    IN  /\ ~(<<i.id, j.id>> \in V /\ <<j.id, i.id>> \in V)
                        /\ <<i.id, i.id>> \notin V
                        /\ <<i.id, j.id>> \in V => i.time < j.time
                        /\ i.time >= j.time =>
                              available_driving_time(i, j, h) = -1

\* a slate with two events at one venue (no driving needed between them)
\* and two events that start at the same instant
C19_Witness ==
    /\ pc = "search" /\ solves = <<>>
    /\ \E p \in forward_pairs :
          /\ driving_duration_matrix[relevant_events[p[1]].id][relevant_events[p[2]].id] = 0
          /\ <<relevant_events[p[1]].id, relevant_events[p[2]].id>> \in edges_at[FirstHour]
          /\ <<relevant_events[p[2]].id, relevant_events[p[1]].id>> \notin edges_at[LastHour]
    /\ \E p \in permutations(relevant_events) :
          relevant_events[p[1]].time = relevant_events[p[2]].time

\* the fixed exclusion pairs, each read in both directions
exclusion_pairs ==
    {<<"Nashville Predators", "Pittsburgh Penguins">>,
     <<"Orlando Magic", "Memphis Grizzlies">>}
excluded(name_1, name_2) ==
    <<name_1, name_2>> \in exclusion_pairs \/ <<name_2, name_1>> \in exclusion_pairs
\* a team list of two leagues that holds both exclusion pairs
two_leagues ==
    TeamList \o << Team(5, "Orlando Magic"), Team(6, "Memphis Grizzlies"),
                   Team(7, "Miami Heat") >>

\* C20: the slate of team T is exactly the events whose away team is T, and
\* the resolved teams of interest are exactly the teams of the team list
\* that the exclusion pairs do not exclude for T and that are the home team
\* of at least one event of the slate.
C20_SlateAndTeamsOfInterest ==
    (pc = "search" /\ solves = <<>>) =>
        LET T == CHOOSE team \in Range(teams) : team.id = team_id
        IN  /\ Range(relevant_events)
                 = {event \in Range(events) : event.away_team = T}
            /\ Len(relevant_events) = Cardinality(Range(relevant_events))
            /\ interested_teams
                 = {team \in Range(teams) :
                       /\ ~excluded(T.name, team.name)
                       /\ \E event \in Range(relevant_events) :
                             event.home_team = team}
            /\ \A team \in Range(two_leagues) :
                  Range(remove_infeasible_teams(two_leagues, team.name))
                    = {other \in Range(two_leagues) :
                          ~excluded(team.name, other.name)}

\* Nashville's slate holds a game at Pittsburgh, which the exclusion drops,
\* and a game at another team, which stays; the season also holds a game
\* that is not an away game of Nashville
C20_Witness ==
    /\ pc = "search" /\ solves = <<>>
    /\ team_name = "nashville_predators"
    /\ \E event \in Range(relevant_events) :
          event.home_team.name = "Pittsburgh Penguins"
    /\ interested_teams # {}
    /\ Len(relevant_events) < Len(events)

\* the ordered pairs of distinct slate events whose venues have no entry in
\* a route matrix
missing_pairs(route_matrix) ==
    {p \in permutations(relevant_events) :
        ~(/\ Has(route_matrix, relevant_events[p[1]].venue)
          /\ Has(route_matrix[relevant_events[p[1]].venue],
                 relevant_events[p[2]].venue))}

\* C21: if the distance or the duration matrix has no entry for the venues
\* of some ordered pair of distinct events of the slate, run_solver ends
\* with a KeyError when it builds that driving cost matrix: no solve has run,
\* no directory or file has been written, and no driving cost matrix holding
\* a substituted cost exists.
C21_MissingRouteIsFatal ==
    (pc # "start"
       /\ missing_pairs(distance_matrix) \cup missing_pairs(duration_matrix) # {}) =>
        /\ pc = "raised"
        /\ error # "" /\ error[1] = "KeyError"
        /\ solves = <<>>
        /\ dirs = {} /\ written = {}
        /\ driving_duration_matrix = EmptyDict
        /\ missing_pairs(distance_matrix) # {} => driving_distance_matrix = EmptyDict

\* a slate with two events at Pittsburgh, for which the duration matrix has
\* no Pittsburgh-to-Pittsburgh entry while the distance matrix is complete
C21_Witness ==
    /\ pc = "raised"
    /\ error = <<"KeyError", 2>>
    /\ missing_pairs(distance_matrix) = {}
    /\ missing_pairs(duration_matrix) # {}
    /\ driving_distance_matrix # EmptyDict

\* C22: build_driving_cost_matrix defines an entry for every ordered pair of
\* distinct events of the slate, also when the origin event is the later
\* one, and the entry is route_matrix[venue(i)][venue(j)], for the distance
\* and for the duration matrix.
C22_DrivingCostForEveryOrderedPair ==
    (pc = "search" /\ solves = <<>>) =>
        \A p \in permutations(relevant_events) :
            LET i == relevant_events[p[1]]
                j == relevant_events[p[2]]
            IN  /\ Has(driving_distance_matrix, i.id)
                /\ Has(driving_distance_matrix[i.id], j.id)
                /\ driving_distance_matrix[i.id][j.id]
                     = distance_matrix[i.venue][j.venue]
                /\ Has(driving_duration_matrix, i.id)
                /\ Has(driving_duration_matrix[i.id], j.id)
                /\ driving_duration_matrix[i.id][j.id]
                     = duration_matrix[i.venue][j.venue]

\* a pair whose origin is the later event and whose two directions differ
\* in both matrices
C22_Witness ==
    /\ pc = "search" /\ solves = <<>>
    /\ \E p \in permutations(relevant_events) :
          LET i == relevant_events[p[1]]
              j == relevant_events[p[2]]
          IN  /\ i.time > j.time
              /\ driving_duration_matrix[i.id][j.id] # driving_duration_matrix[j.id][i.id]
              /\ driving_distance_matrix[i.id][j.id] # driving_distance_matrix[j.id][i.id]

\* C23: after add_dummy_to_cost_matrix, every event e of the list has
\* matrix[e][dummy] = 0 and matrix[dummy][e] = 0, also an event that had no
\* outgoing entry before; there is no dummy-to-dummy entry; and the entries
\* between two real events are those of the matrix before, no more, no less.
C23_DummyAugmentation ==
    (pc = "search" /\ solves = <<>>) =>
        LET before == build_trip_duration_matrix_without_dummy(relevant_events)
            after == add_dummy_to_cost_matrix(before, relevant_events)
            ids == Ids(relevant_events)
        IN  /\ Has(after, DUMMY_EVENT_ID)
            /\ ~Has(after[DUMMY_EVENT_ID], DUMMY_EVENT_ID)
            /\ \A e \in ids :
                  /\ Has(after, e) /\ Has(after[e], DUMMY_EVENT_ID)
                  /\ after[e][DUMMY_EVENT_ID] = 0
                  /\ Has(after[DUMMY_EVENT_ID], e)
                  /\ after[DUMMY_EVENT_ID][e] = 0
            /\ \A i \in ids : \A j \in ids :
                  IF Has(before, i) /\ Has(before[i], j)
                  THEN Has(after[i], j) /\ after[i][j] = before[i][j]
                  ELSE ~Has(after[i], j)
            /\ after = trip_duration_matrix

\* a slate whose last event had no row before the augmentation and whose
\* other events had entries
C23_Witness ==
    /\ pc = "search" /\ solves = <<>>
    /\ LET before == build_trip_duration_matrix_without_dummy(relevant_events)
       IN  /\ \E e \in Ids(relevant_events) : ~Has(before, e)
           /\ \E e \in Ids(relevant_events) : Has(before, e)
    /\ \E e \in Ids(relevant_events) :
          DOMAIN trip_duration_matrix[e] = {DUMMY_EVENT_ID}

\* C24: no step of run_solver changes the team list, the event list or the
\* distance and duration matrices it was given (nor the team id): the slate,
\* the per-team matrices and the teams of interest are values of their own.
C24_InputsUnchanged == [][UNCHANGED inputs]_vars

\* a finished run whose slate and teams of interest are proper parts of the
\* event list and the team list, and whose per-team matrices hold the dummy
C24_Witness ==
    /\ pc = "done"
    /\ Len(relevant_events) >= 2
    /\ Len(relevant_events) < Len(events)
    /\ Cardinality(interested_teams) < Len(teams)
    /\ Has(driving_distance_matrix, DUMMY_EVENT_ID)
    /\ Has(driving_duration_matrix, DUMMY_EVENT_ID)
    /\ Has(trip_duration_matrix, DUMMY_EVENT_ID)
    /\ teams = TeamList

\* the most calls of solve one search makes: five halvings of 1..24 and the
\* solve after the loop
SearchCalls == 6

\* C25: whatever statuses the solver reports, at every test of the loop of
\* binary_search_driving_hours 1 <= left <= right <= 24, every iteration
\* makes right - left strictly smaller, every H passed to solve lies in
\* 1..24, and one search calls solve at most 6 times; so the search ends.
C25_SearchTerminates ==
    /\ [](/\ pc = "search" => FirstHour <= left /\ left <= right /\ right <= LastHour
          /\ \A k \in DOMAIN solves : solves[k].hours \in Hours
          /\ Len(solves) <= SearchCalls)
    /\ [][(pc = "search" /\ pc' = "search") =>
              (/\ Len(solves') = Len(solves) + 1
               /\ right' - left' < right - left)]_vars

\* a search of six calls whose statuses no monotone solver gives: not
\* optimal at an H in the loop and optimal at the same H after it
C25_Witness ==
    /\ pc = "trip_duration"
    /\ Len(solves) = SearchCalls
    /\ \E k \in DOMAIN solves :
          /\ k < Len(solves)
          /\ solves[k].hours = solves[Len(solves)].hours
          /\ solves[k].status # "Optimal"
          /\ solves[Len(solves)].status = "Optimal"

\* C26: whenever the search returns (solution, H), whatever statuses the
\* solver reported, the solution is the model of a call of solve made at
\* exactly H that returned optimal status: it carries H, it is one of the
\* models solve gives at H, and the last optimal call of the search was the
\* one at H.
C26_ReturnedPairBelongsTogether ==
    pc = "trip_duration" =>
        LET H == driving_hours[1]
            optimal_calls == {k \in DOMAIN solves : solves[k].status = "Optimal"}
        IN  /\ trip_duration_sol = min_driving_solution
            /\ driving_hours = min_driving_hours
            /\ trip_duration_sol[1].status = "Optimal"
            /\ trip_duration_sol[1].hours = H
            /\ trip_duration_sol[1].variables = edges_at[H]
            /\ optimal_calls # {}
            /\ \A k \in optimal_calls :
                  (\A l \in optimal_calls : l <= k) => solves[k].hours = H

\* a search misled by a failing solver: it returns an H although the
\* program can be solved at H - 1, after an optimal solve in the loop and
\* an optimal solve after the loop
C26_Witness ==
    /\ pc = "trip_duration"
    /\ driving_hours[1] > FirstHour
    /\ status_at(driving_hours[1] - 1) = "Optimal"
    /\ \E k \in DOMAIN solves : k < Len(solves) /\ solves[k].status = "Optimal"
    /\ solves[Len(solves)].status = "Optimal"

\* C27: once run_solver has ended, by returning or by raising, the team's
\* directory holds all three result files or none of them.
C27_AllThreeFilesOrNone ==
    pc \in {"done", "raised"} =>
        \/ written = {}
        \/ {f[2] : f \in written} = ResultFiles

\* the output directory of the team of task i
directory_of(i) == filesystem_friendly(teams[i].name)

\* C28: two distinct entries of the team list never have the same output
\* directory, so two tasks never write the same path and the files of a team
\* whose task returned are never overwritten by another team's task.
C28_DistinctDirectories ==
    main_pc = "starmap" =>
        /\ \A i \in DOMAIN tasks : \A j \in DOMAIN tasks :
              i # j => directory_of(i) # directory_of(j)
        /\ \A i \in DOMAIN tasks :
              task_state[i] = "returned" =>
                 \A name \in ResultFiles :
                    /\ <<directory_of(i), name>> \in written
                    /\ files[<<directory_of(i), name>>] = text_of(tasks[i], name)

C30_EveryEdgeHasItsCosts ==
    (pc = "search" /\ solves = <<>>) =>
        LET E == edges_at
        IN  \A h \in Hours : \A e \in E[h] :
                /\ Has(trip_duration_matrix, e[1])
                /\ Has(trip_duration_matrix[e[1]], e[2])
                /\ Has(driving_distance_matrix, e[1])
                /\ Has(driving_distance_matrix[e[1]], e[2])
                /\ Has(driving_duration_matrix, e[1])
                /\ Has(driving_duration_matrix[e[1]], e[2])

\* a slate with an edge between two events at some H, and with pairs of
\* events the trip-duration matrix has no entry for (backward pairs and
\* pairs of events that start at the same time)
C30_Witness ==
    /\ pc = "search" /\ solves = <<>>
    /\ \E e \in edges_at[LastHour] : DUMMY_EVENT_ID \notin {e[1], e[2]}
    /\ \E p \in permutations(relevant_events) :
          /\ relevant_events[p[1]].time = relevant_events[p[2]].time
          /\ ~(/\ Has(trip_duration_matrix, relevant_events[p[1]].id)
               /\ Has(trip_duration_matrix[relevant_events[p[1]].id],
                      relevant_events[p[2]].id))
    /\ \E p \in permutations(relevant_events) :
          /\ relevant_events[p[1]].time > relevant_events[p[2]].time
          /\ ~Has(trip_duration_matrix[relevant_events[p[1]].id],
                  relevant_events[p[2]].id)
====
